---- MODULE Spec2Model ----
(***************************************************************************)
(* bintree::TNode<T> (src/tree.h): a binary-tree node whose children are   *)
(* held by std::shared_ptr (left, right) and whose parent is observed      *)
(* through a std::weak_ptr (parent).                                       *)
(*                                                                         *)
(* The heap is modelled explicitly: every node ever allocated has its own  *)
(* identity (identities are never reused, as a weak_ptr is bound to the    *)
(* control block of the object it was made from, not to an address), a     *)
(* node is destroyed when its shared_ptr use count reaches zero, and the   *)
(* caller's shared_ptr handles are the set `held`.                         *)
(***************************************************************************)
EXTENDS Integers, FiniteSets

\* Bound of the model: the factory and mutator calls made during one run.
\* Every allocation is made by such a call, so a run allocates at most
\* MaxCalls nodes.
MaxCalls == 3

\* nullptr: an empty shared_ptr or weak_ptr.
Absent == 0

Nodes == 1..MaxCalls

\* T: the payloads.  No operation of TNode inspects, compares or copies a
\* payload, so one payload, distinct from the Absent a value field reads
\* before any payload is stored in it, exercises every path.
Values == {1}

VARIABLES
    alive,      \* the nodes currently allocated
    allocated,  \* how many nodes make_shared has produced so far
    value,      \* TNode::value
    left,       \* TNode::left   (shared_ptr: owning)
    right,      \* TNode::right  (shared_ptr: owning)
    parent,     \* TNode::parent (weak_ptr: the node it was made from, alive or not)
    held,       \* nodes the caller holds a shared_ptr to
    call,       \* the last call: operation, receiver, arguments, result
    calls       \* factory and mutator calls made so far

vars == <<alive, allocated, value, left, right, parent, held, call, calls>>

heap == <<alive, allocated, value, left, right, parent>>

NoCall == [op |-> "none", self |-> Absent, l |-> Absent, r |-> Absent,
           v |-> Absent, ret |-> Absent, res |-> FALSE]

\* op: the operation; self: the receiver; l, r: the node arguments (for a
\* ...WithLeaf call, the leaf it created); v: the payload argument or result;
\* ret: the node returned; res: the boolean returned.
Call(op, self, l, r, v, ret, res) ==
    [op |-> op, self |-> self, l |-> l, r |-> r, v |-> v, ret |-> ret, res |-> res]

\* The shape of the state.  Identities are handed out in order and never
\* reused; a destroyed node has its members destroyed with it.
TypeOK ==
    /\ allocated \in 0..MaxCalls
    /\ alive \subseteq 1..allocated
    /\ held \subseteq alive
    /\ calls \in 0..MaxCalls
    /\ value \in [Nodes -> Values \cup {Absent}]
    /\ left \in [Nodes -> Nodes \cup {Absent}]
    /\ right \in [Nodes -> Nodes \cup {Absent}]
    /\ parent \in [Nodes -> Nodes \cup {Absent}]
    /\ \A n \in alive :
        /\ left[n] \in alive \cup {Absent}
        /\ right[n] \in alive \cup {Absent}
    /\ \A n \in Nodes \ alive :
        /\ left[n] = Absent
        /\ right[n] = Absent
        /\ parent[n] = Absent

----------------------------------------------------------------------------
\* Accessors

\* bool(left)
hasLeft(n) == left[n] # Absent

\* bool(right)
hasRight(n) == right[n] # Absent

\* bool(parent): written like hasLeft and hasRight, a test of the stored
\* reference itself; unlike getParent the source neither locks the weak_ptr
\* nor asks whether it has expired.  (std::weak_ptr declares no conversion to
\* bool, so the member does not build once it is instantiated; it is read as
\* the emptiness test its text states.)
hasParent(n) == parent[n] # Absent

getValue(n) == value[n]

getLeft(n) == left[n]

getRight(n) == right[n]

\* weak_ptr::lock(): the referenced node if it is still allocated, else empty.
lock(w) == IF w \in alive THEN w ELSE Absent

\* parent.lock()
getParent(n) == lock(parent[n])

----------------------------------------------------------------------------
\* shared_ptr ownership

\* A use count to which back-references contribute: parent held as a
\* shared_ptr.
UseCountWithBackRefs(n, A, L, R, H) ==
    (IF n \in H THEN 1 ELSE 0)
    + Cardinality({m \in A : L[m] = n})
    + Cardinality({m \in A : R[m] = n})
    + Cardinality({m \in A : parent[m] = n})

\* use_count of node n: the caller's handle, and every child slot of an
\* allocated node that holds n.  The weak parent reference is not counted.
UseCount(n, A, L, R, H) ==
    (IF n \in H THEN 1 ELSE 0)
    + Cardinality({m \in A : L[m] = n})
    + Cardinality({m \in A : R[m] = n})

\* The nodes that stay allocated once every node whose use count is zero has
\* been destroyed; destroying a node destroys its left and right members,
\* which may bring further use counts to zero.
RECURSIVE Survivors(_, _, _, _)
Survivors(A, L, R, H) ==
    LET zero == {n \in A : UseCount(n, A, L, R, H) = 0}
    IN  IF zero = {} THEN A ELSE Survivors(A \ zero, L, R, H)

\* setParent(node, parent): if (node) node->parent = parent;
setParent(P, node, p) ==
    IF node # Absent THEN [P EXCEPT ![node] = p] ELSE P

\* Replace without setParent(slot, nullptr): the evicted child keeps its
\* back-reference.
ReplaceKeepsBackRef(S, P, p, c) ==
    [parent |-> setParent(P, c, p),
     slot   |-> [S EXCEPT ![p] = c],
     ret    |-> S[p]]

\* The body of replaceLeft / replaceRight, resetting the receiver's own
\* back-reference as well.
ReplaceDetachesReceiver(S, P, p, c) ==
    [parent |-> setParent(setParent(setParent(P, c, p), S[p], Absent), p, Absent),
     slot |-> [S EXCEPT ![p] = c],
     ret |-> S[p]]

\* The body of replaceLeft / replaceRight on the slot S (left or right) of p:
\*   setParent(c, shared_from_this()); setParent(slot, nullptr);
\*   std::swap(c, slot); return c;
Replace(S, P, p, c) ==
    [parent |-> setParent(setParent(P, c, p), S[p], Absent),
     slot   |-> [S EXCEPT ![p] = c],
     ret    |-> S[p]]

\* A node returned by a call is a shared_ptr in the caller's hands.
Received(h) == held \cup ({h} \ {Absent})

----------------------------------------------------------------------------
Init ==
    /\ alive = {}
    /\ allocated = 0
    /\ value = [n \in Nodes |-> Absent]
    /\ left = [n \in Nodes |-> Absent]
    /\ right = [n \in Nodes |-> Absent]
    /\ parent = [n \in Nodes |-> Absent]
    /\ held = {}
    /\ call = NoCall
    /\ calls = 0

\* make_shared<TSuccessorNode>(v ...): a node never allocated before
Allocate(n, v) ==
    /\ n = allocated + 1
    /\ allocated' = n
    /\ alive' = alive \cup {n}
    /\ value' = [value EXCEPT ![n] = v]

\* The run's budget of factory and mutator calls.
Counted ==
    /\ calls < MaxCalls
    /\ calls' = calls + 1

\* createLeaf through a constructor that leaves the payload
\* value-initialised instead of storing v.
createLeafDefaultValue(v) ==
    \E n \in Nodes :
        /\ Counted
        /\ Allocate(n, Absent)
        /\ held' = Received(n)
        /\ call' = Call("createLeaf", Absent, Absent, Absent, v, n, FALSE)
        /\ UNCHANGED <<left, right, parent>>

\* createLeaf(v)
createLeaf(v) ==
    \E n \in Nodes :
        /\ Counted
        /\ Allocate(n, v)
        /\ held' = Received(n)
        /\ call' = Call("createLeaf", Absent, Absent, Absent, v, n, FALSE)
        /\ UNCHANGED <<left, right, parent>>

\* fork without the two setParent calls.
forkWithoutBackRefs(v, l, r) ==
    \E n \in Nodes :
        /\ Counted
        /\ Allocate(n, v)
        /\ left' = [left EXCEPT ![n] = l]
        /\ right' = [right EXCEPT ![n] = r]
        /\ held' = Received(n)
        /\ call' = Call("fork", Absent, l, r, v, n, FALSE)
        /\ UNCHANGED parent

\* fork whose constructor initialises right from left.
forkLeftTwice(v, l, r) ==
    \E n \in Nodes :
        /\ Counted
        /\ Allocate(n, v)
        /\ left' = [left EXCEPT ![n] = l]
        /\ right' = [right EXCEPT ![n] = l]
        /\ parent' = setParent(parent, l, n)
        /\ held' = Received(n)
        /\ call' = Call("fork", Absent, l, r, v, n, FALSE)

\* fork(v, l, r): the constructor stores l and r, then setParent is applied
\* to the new node's left and to its right.
fork(v, l, r) ==
    \E n \in Nodes :
        /\ Counted
        /\ Allocate(n, v)
        /\ left' = [left EXCEPT ![n] = l]
        /\ right' = [right EXCEPT ![n] = r]
        /\ parent' = setParent(setParent(parent, l, n), r, n)
        /\ held' = Received(n)
        /\ call' = Call("fork", Absent, l, r, v, n, FALSE)

\* p.replaceLeft(l)
replaceLeft(p, l) ==
    LET d == Replace(left, parent, p, l)
    IN  /\ Counted
        /\ parent' = d.parent
        /\ left' = d.slot
        /\ held' = Received(d.ret)
        /\ call' = Call("replaceLeft", p, l, Absent, Absent, d.ret, FALSE)
        /\ UNCHANGED <<alive, allocated, value, right>>

\* p.replaceRight(r)
replaceRight(p, r) ==
    LET d == Replace(right, parent, p, r)
    IN  /\ Counted
        /\ parent' = d.parent
        /\ right' = d.slot
        /\ held' = Received(d.ret)
        /\ call' = Call("replaceRight", p, Absent, r, Absent, d.ret, FALSE)
        /\ UNCHANGED <<alive, allocated, value, left>>

\* p.replaceRightWithLeaf(v): replaceRight(createLeaf(v)).  The leaf is a
\* temporary of the call: the caller receives no handle to it.
replaceRightWithLeaf(p, v) ==
    \E n \in Nodes :
        LET d == Replace(right, parent, p, n)
        IN  /\ Counted
            /\ Allocate(n, v)
            /\ parent' = d.parent
            /\ right' = d.slot
            /\ held' = Received(d.ret)
            /\ call' = Call("replaceRightWithLeaf", p, Absent, n, v, d.ret, FALSE)
            /\ UNCHANGED left

\* replaceLeftWithLeaf that stores the new leaf in the slot directly, with no
\* setParent call.
replaceLeftWithLeafUnlinked(p, v) ==
    \E n \in Nodes :
        /\ Counted
        /\ Allocate(n, v)
        /\ left' = [left EXCEPT ![p] = n]
        /\ held' = Received(left[p])
        /\ call' = Call("replaceLeftWithLeaf", p, n, Absent, v, left[p], FALSE)
        /\ UNCHANGED <<right, parent>>

\* p.replaceLeftWithLeaf(v): replaceLeft(createLeaf(v))
replaceLeftWithLeaf(p, v) ==
    \E n \in Nodes :
        LET d == Replace(left, parent, p, n)
        IN  /\ Counted
            /\ Allocate(n, v)
            /\ parent' = d.parent
            /\ left' = d.slot
            /\ held' = Received(d.ret)
            /\ call' = Call("replaceLeftWithLeaf", p, n, Absent, v, d.ret, FALSE)
            /\ UNCHANGED right

\* removeLeft that empties the slot and leaves the evicted child's
\* back-reference as it was.
removeLeftKeepsBackRef(p) ==
    /\ Counted
    /\ left' = [left EXCEPT ![p] = Absent]
    /\ held' = Received(left[p])
    /\ call' = Call("removeLeft", p, Absent, Absent, Absent, left[p], FALSE)
    /\ UNCHANGED <<alive, allocated, value, right, parent>>

\* p.removeLeft(): replaceLeft(nullptr)
removeLeft(p) ==
    LET d == Replace(left, parent, p, Absent)
    IN  /\ Counted
        /\ parent' = d.parent
        /\ left' = d.slot
        /\ held' = Received(d.ret)
        /\ call' = Call("removeLeft", p, Absent, Absent, Absent, d.ret, FALSE)
        /\ UNCHANGED <<alive, allocated, value, right>>

\* p.removeRight(): replaceRight(nullptr)
removeRight(p) ==
    LET d == Replace(right, parent, p, Absent)
    IN  /\ Counted
        /\ parent' = d.parent
        /\ right' = d.slot
        /\ held' = Received(d.ret)
        /\ call' = Call("removeRight", p, Absent, Absent, Absent, d.ret, FALSE)
        /\ UNCHANGED <<alive, allocated, value, left>>

\* p.getLeft(): the caller keeps the shared_ptr returned
GetLeft(p) ==
    /\ held' = Received(getLeft(p))
    /\ call' = Call("getLeft", p, Absent, Absent, Absent, getLeft(p), FALSE)
    /\ UNCHANGED <<heap, calls>>

\* p.getRight()
GetRight(p) ==
    /\ held' = Received(getRight(p))
    /\ call' = Call("getRight", p, Absent, Absent, Absent, getRight(p), FALSE)
    /\ UNCHANGED <<heap, calls>>

\* getParent that moves the back-reference out of the node as it locks it.
GetParentMovesOut(p) ==
    /\ held' = Received(getParent(p))
    /\ call' = Call("getParent", p, Absent, Absent, Absent, getParent(p), FALSE)
    /\ parent' = [parent EXCEPT ![p] = Absent]
    /\ UNCHANGED <<alive, allocated, value, left, right, calls>>

\* p.getParent()
GetParent(p) ==
    /\ held' = Received(getParent(p))
    /\ call' = Call("getParent", p, Absent, Absent, Absent, getParent(p), FALSE)
    /\ UNCHANGED <<heap, calls>>

\* p.hasLeft()
HasLeft(p) ==
    /\ call' = Call("hasLeft", p, Absent, Absent, Absent, Absent, hasLeft(p))
    /\ UNCHANGED <<heap, held, calls>>

\* p.hasRight()
HasRight(p) ==
    /\ call' = Call("hasRight", p, Absent, Absent, Absent, Absent, hasRight(p))
    /\ UNCHANGED <<heap, held, calls>>

\* p.hasParent()
HasParent(p) ==
    /\ call' = Call("hasParent", p, Absent, Absent, Absent, Absent, hasParent(p))
    /\ UNCHANGED <<heap, held, calls>>

\* p.getValue(), read
GetValue(p) ==
    /\ call' = Call("getValue", p, Absent, Absent, getValue(p), Absent, FALSE)
    /\ UNCHANGED <<heap, held, calls>>

\* p.getValue() = v: a write through the T& the non-const overload returns
SetValue(p, v) ==
    /\ value' = [value EXCEPT ![p] = v]
    /\ call' = Call("setValue", p, Absent, Absent, v, Absent, FALSE)
    /\ UNCHANGED <<alive, allocated, left, right, parent, held, calls>>

\* The caller destroys (or reassigns) its shared_ptr to h.  Every node whose
\* use count thereby reaches zero is destroyed, its members with it.
Drop(h) ==
    LET H == held \ {h}
        A == Survivors(alive, left, right, H)
        Gone(n) == n \in alive \ A
    IN  /\ held' = H
        /\ alive' = A
        /\ left' = [n \in Nodes |-> IF Gone(n) THEN Absent ELSE left[n]]
        /\ right' = [n \in Nodes |-> IF Gone(n) THEN Absent ELSE right[n]]
        /\ parent' = [n \in Nodes |-> IF Gone(n) THEN Absent ELSE parent[n]]
        /\ value' = [n \in Nodes |-> IF Gone(n) THEN Absent ELSE value[n]]
        /\ call' = Call("drop", h, Absent, Absent, Absent, Absent, FALSE)
        /\ UNCHANGED <<allocated, calls>>

Next ==
    \/ \E v \in Values : createLeaf(v)
    \/ \E v \in Values, l, r \in held \cup {Absent} : fork(v, l, r)
    \/ \E p \in held, l \in held \cup {Absent} : replaceLeft(p, l)
    \/ \E p \in held, r \in held \cup {Absent} : replaceRight(p, r)
    \/ \E p \in held, v \in Values : replaceLeftWithLeaf(p, v)
    \/ \E p \in held, v \in Values : replaceRightWithLeaf(p, v)
    \/ \E p \in held : removeLeft(p)
    \/ \E p \in held : removeRight(p)
    \/ \E p \in held : GetLeft(p)
    \/ \E p \in held : GetRight(p)
    \/ \E p \in held : GetParent(p)
    \/ \E p \in held : HasLeft(p)
    \/ \E p \in held : HasRight(p)
    \/ \E p \in held : HasParent(p)
    \/ \E p \in held : GetValue(p)
    \/ \E p \in held, v \in Values : SetValue(p, v)
    \/ \E h \in held : Drop(h)

Spec == Init /\ [][Next]_vars

----------------------------------------------------------------------------
\* Callers that honour the attachment preconditions: a subtree passed to fork
\* or replace... is not attached elsewhere, and is neither the receiver nor
\* one of its ancestors.

\* The nodes reachable from the nodes of S through left and right.
RECURSIVE Reach(_)
Reach(S) ==
    LET T == (S \cup {left[n] : n \in S} \cup {right[n] : n \in S}) \ {Absent}
    IN  IF T = S THEN S ELSE Reach(T)

\* c occupies a child slot of an allocated node.
Attached(c) == \E m \in alive : left[m] = c \/ right[m] = c

\* c occupies no child slot other than the slot S of p.
OnlyIn(S, T, p, c) ==
    ~\E m \in alive : T[m] = c \/ (m # p /\ S[m] = c)

MayFork(l, r) ==
    /\ l # Absent => ~Attached(l)
    /\ r # Absent => ~Attached(r) /\ r # l

MayReplaceLeft(p, c) ==
    c # Absent => OnlyIn(left, right, p, c) /\ p \notin Reach({c})

MayReplaceRight(p, c) ==
    c # Absent => OnlyIn(right, left, p, c) /\ p \notin Reach({c})

CarefulFork(v, l, r) == MayFork(l, r) /\ fork(v, l, r)

CarefulReplaceLeft(p, l) == MayReplaceLeft(p, l) /\ replaceLeft(p, l)

CarefulReplaceRight(p, r) == MayReplaceRight(p, r) /\ replaceRight(p, r)

NextCareful ==
    \/ \E v \in Values : createLeaf(v)
    \/ \E v \in Values, l, r \in held \cup {Absent} : CarefulFork(v, l, r)
    \/ \E p \in held, l \in held \cup {Absent} : CarefulReplaceLeft(p, l)
    \/ \E p \in held, r \in held \cup {Absent} : CarefulReplaceRight(p, r)
    \/ \E p \in held, v \in Values : replaceLeftWithLeaf(p, v)
    \/ \E p \in held, v \in Values : replaceRightWithLeaf(p, v)
    \/ \E p \in held : removeLeft(p)
    \/ \E p \in held : removeRight(p)
    \/ \E p \in held : GetLeft(p)
    \/ \E p \in held : GetRight(p)
    \/ \E p \in held : GetParent(p)
    \/ \E p \in held : HasLeft(p)
    \/ \E p \in held : HasRight(p)
    \/ \E p \in held : HasParent(p)
    \/ \E p \in held : GetValue(p)
    \/ \E p \in held, v \in Values : SetValue(p, v)
    \/ \E h \in held : Drop(h)

SpecCareful == Init /\ [][NextCareful]_vars

----------------------------------------------------------------------------
\* The calls that run the body of replaceLeft, resp. replaceRight.
LeftCalls == {"replaceLeft", "replaceLeftWithLeaf", "removeLeft"}

RightCalls == {"replaceRight", "replaceRightWithLeaf", "removeRight"}

\* The node the last call installed in a slot (Absent for remove...).
Installed == IF call.op \in LeftCalls THEN call.l ELSE call.r

\* p holds c in its left or right slot.
HoldsChild(p, c) == left[p] = c \/ right[p] = c

\* C1: after every call and handle drop, every allocated node N whose
\* hasParent() is true satisfies N.getParent().getLeft() == N or
\* N.getParent().getRight() == N.
C1_LinkConsistency ==
    \A n \in alive :
        hasParent(n) =>
            /\ getParent(n) # Absent
            /\ HoldsChild(getParent(n), n)

\* C2: immediately after P.replaceLeft(c) with c present, P.getLeft() == c and
\* c.getParent() == P; likewise for replaceRight and getRight; whatever c was
\* before the call.
C2_ReplaceInstallsBothLinks ==
    /\ (call.op = "replaceLeft" /\ call.l # Absent) =>
            /\ getLeft(call.self) = call.l
            /\ getParent(call.l) = call.self
    /\ (call.op = "replaceRight" /\ call.r # Absent) =>
            /\ getRight(call.self) = call.r
            /\ getParent(call.r) = call.self

\* C3 as claimed: replaceLeft / replaceRight returns exactly the node that
\* occupied the slot before the call (absent if it was empty), and the node
\* returned is detached: its hasParent() is false and it no longer occupies
\* that slot of the receiver.
C3_ReturnedIsDetached ==
    [][/\ call'.op = "replaceLeft" =>
            /\ call'.ret = left[call'.self]
            /\ call'.ret # Absent =>
                    /\ ~hasParent(call.ret)'
                    /\ left'[call'.self] # call'.ret
       /\ call'.op = "replaceRight" =>
            /\ call'.ret = right[call'.self]
            /\ call'.ret # Absent =>
                    /\ ~hasParent(call.ret)'
                    /\ right'[call'.self] # call'.ret]_vars

\* C3 as amended: replaceLeft / replaceRight (and the remove... and
\* ...WithLeaf calls, which run the same body) returns exactly the node that
\* occupied the slot before the call, absent if it was empty; unless the node
\* returned is the very node that was passed in, it is detached: its
\* hasParent() is false and it no longer occupies that slot of the receiver.
C3_ReturnedIsDetachedUnlessReinstalled ==
    [][/\ call'.op \in LeftCalls =>
            /\ call'.ret = left[call'.self]
            /\ (call'.ret # Absent /\ call'.ret # call'.l) =>
                    /\ ~hasParent(call.ret)'
                    /\ left'[call'.self] # call'.ret
       /\ call'.op \in RightCalls =>
            /\ call'.ret = right[call'.self]
            /\ (call'.ret # Absent /\ call'.ret # call'.r) =>
                    /\ ~hasParent(call.ret)'
                    /\ right'[call'.self] # call'.ret]_vars

\* A replaceLeft or replaceRight call has evicted a child: the node returned
\* is in the caller's hands, has no parent and has left the slot.
C3_Witness ==
    /\ call.op \in {"replaceLeft", "replaceRight"}
    /\ call.ret # Absent
    /\ call.ret # Installed
    /\ call.ret \in held
    /\ ~hasParent(call.ret)
    /\ ~HoldsChild(call.self, call.ret)

\* The child slots of allocated nodes that hold n.
SlotCount(n) ==
    Cardinality({m \in alive : left[m] = n})
    + Cardinality({m \in alive : right[m] = n})

\* C4: for callers that pass only subtrees not attached elsewhere, parent and
\* child links agree in both directions after every operation: whenever an
\* allocated node P holds C in a slot, C.getParent() is P, and a
\* back-reference that resolves names a node that holds the node in a slot.
C4_MutualLinks ==
    \A p \in alive :
        /\ \A c \in alive : HoldsChild(p, c) => getParent(c) = p
        /\ getParent(p) # Absent => HoldsChild(getParent(p), p)

\* The nodes the last call attached, and the node it attached them to.
AttachedByCall ==
    (CASE call.op = "fork" -> {call.l, call.r}
       [] call.op = "replaceLeft" -> {call.l}
       [] call.op = "replaceRight" -> {call.r}
       [] OTHER -> {}) \ {Absent}

AttachedTo == IF call.op = "fork" THEN call.ret ELSE call.self

\* C5 as claimed: a node is held by at most one child slot at any time, and
\* when a node that occupies a child slot of Q is attached to another node by
\* fork, replaceLeft or replaceRight, Q no longer holds it afterwards.
C5_SingleOwnerSevered ==
    [][/\ \A n \in alive' : SlotCount(n)' <= 1
       /\ \A c \in AttachedByCall', q \in alive :
            (HoldsChild(q, c) /\ q # AttachedTo') => ~HoldsChild(q, c)']_vars

\* The last call was given only nodes that were attached nowhere else when
\* it was made (and, for fork, not the same node twice).
PassedUnattached ==
    CASE call'.op = "fork" -> MayFork(call'.l, call'.r)
      [] call'.op = "replaceLeft" ->
            call'.l # Absent => OnlyIn(left, right, call'.self, call'.l)
      [] call'.op = "replaceRight" ->
            call'.r # Absent => OnlyIn(right, left, call'.self, call'.r)
      [] OTHER -> TRUE

\* C5 as amended: no node is held by a child slot at first, and a call that
\* is given only nodes attached nowhere else (for fork, not the same node
\* twice) keeps every node in at most one child slot; so does every other
\* operation.  No call severs an earlier attachment of the node it is given.
C5_SingleOwnerOfUnattached ==
    /\ \A n \in Nodes : SlotCount(n) = 0
    /\ [][((\A n \in alive : SlotCount(n) <= 1) /\ PassedUnattached) =>
            \A n \in alive' : SlotCount(n)' <= 1]_vars

\* fork, replaceLeft or replaceRight has attached a node, which now occupies
\* the one slot it was attached to.
C5_Witness ==
    /\ AttachedByCall # {}
    /\ \A c \in AttachedByCall :
        /\ HoldsChild(AttachedTo, c)
        /\ SlotCount(c) = 1

\* old = node.replaceLeft(x); node.replaceLeft(old) on the slot S: the node
\* the first call returned, and the slot and back-references after the second.
RoundTrip(S, P, node, x) ==
    LET first == Replace(S, P, node, x)
        second == Replace(first.slot, first.parent, node, first.ret)
    IN  [old |-> first.ret, between |-> first.parent,
         slot |-> second.slot, parent |-> second.parent]

\* C6: for every node the caller holds, every handle x (present or absent)
\* and whatever the slot held, old = node.replaceLeft(x) followed by
\* node.replaceLeft(old) leaves node.getLeft() == old and x.hasParent() false
\* (bool of x's back-reference); the same for replaceRight.
C6_RoundTrip ==
    \A node \in held, x \in held \cup {Absent} :
        \A S \in {left, right} :
            LET t == RoundTrip(S, parent, node, x)
            IN  /\ t.slot[node] = t.old
                /\ x # Absent => t.parent[x] = Absent

\* A state from which the round trip is made with a present x on a slot that
\* holds another node: after the first call x refers back to node, after the
\* second the slot holds the former child again and x refers to nothing.
C6_Witness ==
    \E node \in held, x \in held :
        LET t == RoundTrip(left, parent, node, x)
        IN  /\ x # node
            /\ left[node] \notin {Absent, x}
            /\ t.old = left[node]
            /\ t.between[x] = node
            /\ t.slot[node] = t.old
            /\ t.parent[x] = Absent

\* C7: for callers that honour the attachment preconditions, a node is
\* allocated if and only if it is reachable from a handle of the caller
\* through child slots; back-references keep nothing allocated.  So a child
\* detached by removeLeft / removeRight whose returned handle is dropped, no
\* other handle to it being held, is deallocated with every node reachable
\* only through it.
C7_AllocatedIffReachable ==
    alive = Reach(held)

\* A handle drop has deallocated the node it referred to, while a node the
\* caller holds no handle to stays allocated through the child slot it is in.
C7_Witness ==
    /\ call.op = "drop"
    /\ call.self \notin alive
    /\ \E n \in alive \ held : Attached(n)

\* C8: once every strong reference to the parent P of a node C is dropped, P
\* is deallocated (a back-reference keeps nothing allocated), and from then
\* on C.getParent() is absent and C.hasParent() is false; getParent() never
\* yields a deallocated node; while P is allocated and holds C,
\* C.getParent() == P.
C8_BackRefInvalidation ==
    /\ \A p \in alive : p \in held \/ Attached(p)
    /\ \A c \in alive :
        /\ getParent(c) \in alive \cup {Absent}
        /\ (parent[c] # Absent /\ parent[c] \notin alive) =>
                /\ getParent(c) = Absent
                /\ ~hasParent(c)
        /\ \A p \in alive : HoldsChild(p, c) => getParent(c) = p

\* C9: fork(v, l, r) returns a node F never allocated before, with
\* F.getValue() == v, F.getLeft() == l, F.getRight() == r and F.hasParent()
\* false; each of l, r that is present has getParent() == F when fork
\* returns, and an absent l or r leaves the slot empty.
C9_ForkResult ==
    [][call'.op = "fork" =>
        /\ call'.ret \notin alive
        /\ call'.ret > allocated
        /\ call'.ret \in alive'
        /\ call'.ret \in held'
        /\ getValue(call.ret)' = call'.v
        /\ getLeft(call.ret)' = call'.l
        /\ getRight(call.ret)' = call'.r
        /\ hasLeft(call.ret)' = (call'.l # Absent)
        /\ hasRight(call.ret)' = (call'.r # Absent)
        /\ ~hasParent(call.ret)'
        /\ getParent(call.ret)' = Absent
        /\ call'.l # Absent => getParent(call.l)' = call'.ret
        /\ call'.r # Absent => getParent(call.r)' = call'.ret]_vars

\* fork has returned a node holding two different present subtrees, both of
\* which refer back to it.
C9_Witness ==
    /\ call.op = "fork"
    /\ call.l # Absent
    /\ call.r # Absent
    /\ call.l # call.r
    /\ getLeft(call.ret) = call.l
    /\ getRight(call.ret) = call.r
    /\ getParent(call.l) = call.ret
    /\ getParent(call.r) = call.ret

\* The attachment state of a node: hasParent(), and the node that holds it.
Attachment(n) == <<hasParent(n), getParent(n)>>

\* fork, replace... and remove... calls.
RelinkCalls == {"fork"} \cup LeftCalls \cup RightCalls

\* A node that createLeaf or fork returns is unattached.
CreatedUnattached ==
    \A n \in alive' \ alive :
        call'.op \in {"createLeaf", "fork"} =>
            Attachment(n)' = <<FALSE, Absent>>

\* C10 as claimed: a node is created unattached, and its attachment state
\* changes only as the effect of a fork, replace... or remove... call: no
\* accessor call and no handle drop changes it.
C10_OnlyRelinkingMoves ==
    [][/\ CreatedUnattached
       /\ \A n \in alive \cap alive' :
            Attachment(n)' # Attachment(n) => call'.op \in RelinkCalls]_vars

\* C10 as amended: a node is created unattached, and its attachment state
\* changes only as the effect of a fork, replace... or remove... call, or of
\* a handle drop that deallocates the node's parent, after which its
\* getParent() is absent.  No accessor call changes it.
C10_RelinkingOrParentDeath ==
    [][/\ CreatedUnattached
       /\ \A n \in alive \cap alive' :
            Attachment(n)' # Attachment(n) =>
                \/ call'.op \in RelinkCalls
                \/ /\ call'.op = "drop"
                   /\ getParent(n) # Absent
                   /\ getParent(n) \notin alive'
                   /\ getParent(n)' = Absent]_vars

\* The caller has dropped its handle to a node that held a child; the node is
\* deallocated and the child, still allocated, refers back to it.
C10_Witness ==
    /\ call.op = "drop"
    /\ call.self \notin alive
    /\ \E n \in held : parent[n] = call.self /\ getParent(n) = Absent

\* C11: removeLeft() is observationally identical to replaceLeft(absent) and
\* removeRight() to replaceRight(absent): from any state the call leaves the
\* fields and returns the node that the body of replaceLeft / replaceRight
\* leaves and returns for an absent argument; it empties the slot, returns
\* the former occupant with hasParent() false (absent if the slot was empty)
\* and leaves the other slot untouched.
C11_RemoveIsReplaceAbsent ==
    [][/\ call'.op = "removeLeft" =>
            LET d == Replace(left, parent, call'.self, Absent)
            IN  /\ left' = d.slot
                /\ parent' = d.parent
                /\ call'.ret = d.ret
                /\ held' = Received(d.ret)
                /\ ~hasLeft(call.self)'
                /\ call'.ret = left[call'.self]
                /\ call'.ret # Absent => ~hasParent(call.ret)'
                /\ UNCHANGED <<alive, allocated, value, right>>
       /\ call'.op = "removeRight" =>
            LET d == Replace(right, parent, call'.self, Absent)
            IN  /\ right' = d.slot
                /\ parent' = d.parent
                /\ call'.ret = d.ret
                /\ held' = Received(d.ret)
                /\ ~hasRight(call.self)'
                /\ call'.ret = right[call'.self]
                /\ call'.ret # Absent => ~hasParent(call.ret)'
                /\ UNCHANGED <<alive, allocated, value, left>>]_vars

\* removeLeft has emptied a slot that held a node: the caller has the node,
\* which refers back to nothing.
C11_Witness ==
    /\ call.op = "removeLeft"
    /\ call.ret # Absent
    /\ call.ret # call.self
    /\ call.ret \in held
    /\ ~hasLeft(call.self)
    /\ ~hasParent(call.ret)

\* C12: createLeaf(v) always succeeds (it is enabled for every v whatever the
\* state) and returns a newly allocated node, distinct from every existing
\* node, with getValue() == v, hasLeft(), hasRight() and hasParent() false;
\* it changes no field of an existing node and deallocates none.
C12_CreateLeafResult ==
    /\ [](calls < MaxCalls => \A v \in Values : ENABLED createLeaf(v))
    /\ [][call'.op = "createLeaf" =>
            /\ call'.ret # Absent
            /\ call'.ret \notin alive
            /\ alive' = alive \cup {call'.ret}
            /\ held' = held \cup {call'.ret}
            /\ getValue(call.ret)' = call'.v
            /\ ~hasLeft(call.ret)'
            /\ ~hasRight(call.ret)'
            /\ ~hasParent(call.ret)'
            /\ getLeft(call.ret)' = Absent
            /\ getRight(call.ret)' = Absent
            /\ getParent(call.ret)' = Absent
            /\ \A n \in alive :
                /\ value'[n] = value[n]
                /\ left'[n] = left[n]
                /\ right'[n] = right[n]
                /\ parent'[n] = parent[n]]_vars

\* createLeaf has returned a leaf while another node, which holds a child,
\* is allocated.
C12_Witness ==
    /\ call.op = "createLeaf"
    /\ call.ret \in held
    /\ getValue(call.ret) = call.v
    /\ ~hasLeft(call.ret) /\ ~hasRight(call.ret) /\ ~hasParent(call.ret)
    /\ \E m \in alive \ {call.ret} : hasLeft(m) \/ hasRight(m)

\* C13: hasLeft(), hasRight() and hasParent() agree with the getters in every
\* reachable state: hasLeft() is true iff getLeft() is non-absent, hasRight()
\* iff getRight() is non-absent, and hasParent() iff getParent() resolves to
\* an allocated node, so that a back-reference to a deallocated parent
\* reports false.
C13_HasAgreesWithGet ==
    \A n \in alive :
        /\ hasLeft(n) <=> getLeft(n) # Absent
        /\ hasRight(n) <=> getRight(n) # Absent
        /\ hasParent(n) <=> getParent(n) \in alive

\* The child links form a forest: no allocated node occupies more than one
\* child slot and none is its own ancestor.
Forest ==
    \A n \in alive :
        /\ SlotCount(n) <= 1
        /\ n \notin Reach({left[n], right[n]} \ {Absent})

\* c, passed to a call on receiver p, is in no child slot of an allocated
\* node and is neither p nor an ancestor of p.
Detached(p, c) ==
    c # Absent => ~Attached(c) /\ p \notin Reach({c})

\* Every node handed to the call that makes this step satisfies Detached (a
\* fork has no receiver).
PassedDetached ==
    CASE call'.op = "fork" ->
            Detached(Absent, call'.l) /\ Detached(Absent, call'.r)
      [] call'.op = "replaceLeft" -> Detached(call'.self, call'.l)
      [] call'.op = "replaceRight" -> Detached(call'.self, call'.r)
      [] OTHER -> TRUE

\* fork is not handed the same node as both subtrees.
ForkedApart ==
    (call'.op = "fork" /\ call'.l # Absent) => call'.l # call'.r

\* C14 as claimed: the child links form a forest at first, and they form a
\* forest after every operation for which every node passed to fork,
\* replaceLeft or replaceRight is, at the time of the call, in no child slot
\* of an allocated node and is neither the receiver nor an ancestor of the
\* receiver: no node is its own ancestor and no node occupies more than one
\* child slot.
C14_ForestOfDetached ==
    /\ Forest
    /\ [][(Forest /\ PassedDetached) => Forest']_vars

\* C14 as amended: the same, for callers that moreover never pass one node
\* as both subtrees of a fork.
C14_ForestOfDetachedApart ==
    /\ Forest
    /\ [][(Forest /\ PassedDetached /\ ForkedApart) => Forest']_vars

\* replaceLeft has attached a node that was in no slot under a receiver that
\* is not below it: the node is in that one slot, refers back to the
\* receiver, and the links form a forest.
C14_Witness ==
    /\ call.op = "replaceLeft"
    /\ call.l # Absent
    /\ call.ret = Absent
    /\ getLeft(call.self) = call.l
    /\ getParent(call.l) = call.self
    /\ SlotCount(call.l) = 1
    /\ call.self \notin Reach({call.l})
    /\ Forest

\* C15: replaceLeftWithLeaf(v) behaves as replaceLeft(createLeaf(v)) and
\* replaceRightWithLeaf(v) as replaceRight(createLeaf(v)): the call allocates
\* a node and leaves the slot and back-references that the body of
\* replaceLeft / replaceRight leaves for that node; after the call the slot
\* holds a freshly allocated childless node with value v whose getParent()
\* is the receiver, and the call returns the evicted former occupant (with
\* hasParent() false), absent if the slot was empty.
C15_WithLeafIsReplaceOfLeaf ==
    [][/\ call'.op = "replaceLeftWithLeaf" =>
            LET d == Replace(left, parent, call'.self, call'.l)
            IN  /\ call'.l \notin alive \cup {Absent}
                /\ alive' = alive \cup {call'.l}
                /\ value' = [value EXCEPT ![call'.l] = call'.v]
                /\ left' = d.slot
                /\ parent' = d.parent
                /\ right' = right
                /\ call'.ret = d.ret
                /\ getLeft(call.self)' = call'.l
                /\ getValue(call.l)' = call'.v
                /\ ~hasLeft(call.l)' /\ ~hasRight(call.l)'
                /\ getParent(call.l)' = call'.self
                /\ call'.ret = left[call'.self]
                /\ call'.ret # Absent => ~hasParent(call.ret)'
       /\ call'.op = "replaceRightWithLeaf" =>
            LET d == Replace(right, parent, call'.self, call'.r)
            IN  /\ call'.r \notin alive \cup {Absent}
                /\ alive' = alive \cup {call'.r}
                /\ value' = [value EXCEPT ![call'.r] = call'.v]
                /\ right' = d.slot
                /\ parent' = d.parent
                /\ left' = left
                /\ call'.ret = d.ret
                /\ getRight(call.self)' = call'.r
                /\ getValue(call.r)' = call'.v
                /\ ~hasLeft(call.r)' /\ ~hasRight(call.r)'
                /\ getParent(call.r)' = call'.self
                /\ call'.ret = right[call'.self]
                /\ call'.ret # Absent => ~hasParent(call.ret)']_vars

\* replaceLeftWithLeaf has put a new leaf in a slot that held a node: the
\* leaf refers back to the receiver, and the caller has the evicted node,
\* which refers back to nothing.
C15_Witness ==
    /\ call.op = "replaceLeftWithLeaf"
    /\ call.ret # Absent
    /\ call.ret \in held
    /\ ~hasParent(call.ret)
    /\ getLeft(call.self) = call.l
    /\ call.l \notin held
    /\ getParent(call.l) = call.self

\* Calls that read a node, or write its payload through getValue().
AccessorCalls ==
    {"hasLeft", "hasRight", "hasParent", "getLeft", "getRight", "getParent",
     "getValue", "setValue"}

====
